---- MODULE Spec2Model ----
(***************************************************************************)
(* Model of quantum_expert_system.py (class QuantumExpertSystem).          *)
(*                                                                         *)
(* Text is a sequence of one-character strings.  Confidences are kept in   *)
(* hundredths (0.75 is 75) so that all arithmetic is over integers.        *)
(*                                                                         *)
(* The specifications share the variables:                                 *)
(*   SpecExtract  extract_game_data / get_current_period on a page text    *)
(*   SpecEngine   quantum_prediction_engine and its sub-models             *)
(*   Spec         run_expert_system, the cycle loop with the database      *)
(*   SpecSend     send_telegram_message on its own                         *)
(*   SpecSession  perform_login followed by navigate_to_1m_game            *)
(*   SpecMain     __init__, the run and close(): the two resources         *)
(***************************************************************************)
EXTENDS Integers, Sequences, FiniteSets, TLC

VARIABLES
    body_text,      \* SpecExtract: driver.find_element(By.TAG_NAME, "body").text
    epc,            \* SpecExtract: position, "init" | "extracted" | "period"
    data,           \* SpecExtract: what extract_game_data returned
    period_seen,    \* SpecExtract: what get_current_period returned
    training_data,  \* SpecEngine: the list handed to quantum_prediction_engine
    gpc,            \* SpecEngine: "init", or the function that was applied
    prediction,     \* SpecEngine: the dict quantum_prediction_engine returned
    invoked,        \* SpecEngine: the sub-models that call ran
    sub_out,        \* SpecEngine: the pair a sub-model returned
    pc,             \* Spec: position in run_expert_system
    cycle,          \* Spec: number of loop iterations started
    db,             \* Spec: rows of quantum_game_results, in insertion order
    current_running_period, \* Spec: self.current_running_period
    telegram_bot_token,     \* Spec: TRUE when TELEGRAM_BOT_TOKEN is set
    telegram_channel_id,    \* Spec: TRUE when TELEGRAM_CHANNEL_ID is set
    attempts,       \* Spec: kinds of message handed to send_telegram_message
    requests_posted,\* Spec: number of requests.post calls issued
    send_result,    \* Spec: what the last send_telegram_message returned
    ignored,        \* Spec: inserts the last persistence step found already stored
    last,           \* Spec: what the most recent loop iteration did (repeat:
                    \*       it read the period the iteration before it read)
    login_calls,    \* Spec: calls of perform_login
    navigate_calls, \* Spec: calls of navigate_to_1m_game
    post_outcome,   \* SpecSend: what requests.post did in the last call
    send_raised,    \* SpecSend: the last call let an exception out
    spc,            \* SpecSession: position in perform_login / navigate_to_1m_game
    sel,            \* SpecSession: selector the current loop tries next (0: none)
    current_url,    \* SpecSession: the URL read after the first page load
    acts,           \* SpecSession: form steps done (fields filled, submit clicked)
    puzzle,         \* SpecSession: what handle_puzzle_verification found and did
    scans,          \* SpecSession: confirmation scans started
    clicked,        \* SpecSession: clicked flag of the current scan
    visible,        \* SpecSession: the current scan met a displayed button
    screens_handled,\* SpecSession: confirmation buttons clicked
    login_result,   \* SpecSession: what perform_login returned
    polls,          \* SpecSession: reads of the page text while waiting
    game_loaded,    \* SpecSession: a poll found a game indicator
    tab_clicks,     \* SpecSession: tab elements clicked
    nav_result,     \* SpecSession: what navigate_to_1m_game returned
    mpc,            \* SpecMain: position in the main block
    conn,           \* SpecMain: the sqlite connection ("none", "open", "closed")
    driver,         \* SpecMain: the browser ("none", "open", "quit")
    exit_path       \* SpecMain: how the program came to its end

extractVars == <<body_text, epc, data, period_seen>>
engineVars  == <<training_data, gpc, prediction, invoked, sub_out>>
runVars     == <<pc, cycle, db, current_running_period, telegram_bot_token,
                 telegram_channel_id, attempts, requests_posted, send_result, ignored,
                 last, login_calls, navigate_calls>>
sendVars    == <<post_outcome, send_raised>>
sessionVars == <<spc, sel, current_url, acts, puzzle, scans, clicked, visible,
                 screens_handled, login_result, polls, game_loaded, tab_clicks,
                 nav_result>>
mainVars    == <<mpc, conn, driver, exit_path>>
otherVars   == <<sendVars, sessionVars, mainVars>>
vars == <<extractVars, engineVars, runVars, otherVars>>

\* Python's None where a text is expected (texts are sequences, so None is a
\* sequence no text equals), and a read of the page that raises.
None == <<"None">>
PageRaises == <<"raise">>

-----------------------------------------------------------------------------
(* Bounds of the model *)

MaxLines == 4       \* lines of a page drawn freely from LineSamples
MaxBlocks == 2      \* blocks (a result triple or a noise line) of a block page
MaxHistory == 21    \* rows of a training list (one more than the engine's slice)
MaxSends == 2       \* calls of send_telegram_message in SpecSend

-----------------------------------------------------------------------------
(* Program constants *)

PeriodLen == 17     \* len(line1) == 17
MaxDraw == 9        \* 0 <= int(line2) <= 9
MinSamples == 10    \* len(training_data) < 10
TrendWindow == 20   \* training_data[:20]
TrainingLimit == 50 \* get_training_data(self, limit=50)
NumCycles == 5      \* for cycle in range(5)
CycleSleep == 15    \* time.sleep(15)
BackoffSleep == 10
NumPuzzleSelectors == 5         \* puzzle_selectors
DragMargin == 10                \* drag_distance = size['width'] - 10
NumConfirmationSelectors == 8   \* confirmation_selectors
max_screens == 6
MaxPolls == 5                   \* for _ in range(5) of navigate_to_1m_game
NumTabSelectors == 5            \* tab_selectors
NumUsernameSelectors == 4       \* username_selectors
NumPasswordSelectors == 2       \* password_selectors
NumLoginSelectors == 3          \* login_selectors  \* time.sleep(10)

-----------------------------------------------------------------------------
(* Characters and Python's str methods *)

NL == "\n"
DecimalDigits == {"0", "1", "2", "3", "4", "5", "6", "7", "8", "9"}
\* Characters for which str.isdigit() is true but which int() rejects
\* (superscripts and the like: Numeric_Type=Digit that is not Decimal).
OtherDigits == {"^2"}
Whitespace == {" ", NL}

\* str.isdigit(): non-empty and every character is a digit.
IsDigit(s) == Len(s) > 0 /\ \A k \in 1..Len(s) : s[k] \in DecimalDigits \cup OtherDigits

\* int(s) raises ValueError on a string that is not a decimal literal.
IntRaises(s) == Len(s) = 0 \/ \E k \in 1..Len(s) : s[k] \notin DecimalDigits

DigitValue(c) ==
    CASE c = "0" -> 0 [] c = "1" -> 1 [] c = "2" -> 2 [] c = "3" -> 3
      [] c = "4" -> 4 [] c = "5" -> 5 [] c = "6" -> 6 [] c = "7" -> 7
      [] c = "8" -> 8 [] c = "9" -> 9

\* int(s) for a decimal literal.  Python integers are unbounded; the code only
\* compares the value with 0 and 9, so the value is computed digit by digit and
\* saturates at MaxDraw + 1 (every larger value behaves alike).
RECURSIVE IntFrom(_, _, _)
IntFrom(s, k, acc) ==
    IF k > Len(s) THEN acc
    ELSE LET v == 10 * acc + DigitValue(s[k])
         IN  IntFrom(s, k + 1, IF v > MaxDraw THEN MaxDraw + 1 ELSE v)

IntOf(s) == IntFrom(s, 1, 0)

\* s.replace(c, '') for each c in chars.
Remove(s, chars) == SelectSeq(s, LAMBDA c : c \notin chars)

\* s.strip(): drop leading and trailing whitespace.
Strip(s) ==
    LET keep == {k \in 1..Len(s) : s[k] \notin Whitespace}
    IN  IF keep = {} THEN <<>>
        ELSE LET lo == CHOOSE k \in keep : \A j \in keep : k <= j
                 hi == CHOOSE k \in keep : \A j \in keep : k >= j
             IN  SubSeq(s, lo, hi)

\* s.split('\n'): the pieces between newlines (always at least one piece).
RECURSIVE SplitFrom(_, _, _, _)
SplitFrom(s, k, cur, acc) ==
    IF k > Len(s) THEN Append(acc, cur)
    ELSE IF s[k] = NL THEN SplitFrom(s, k + 1, <<>>, Append(acc, cur))
    ELSE SplitFrom(s, k + 1, Append(cur, s[k]), acc)

Split(s) == SplitFrom(s, 1, <<>>, <<>>)

\* '\n'.join(lines): how a page text is put together from its lines.
RECURSIVE Join(_)
Join(ls) ==
    IF Len(ls) = 0 THEN <<>>
    ELSE IF Len(ls) = 1 THEN ls[1]
    ELSE ls[1] \o <<NL>> \o Join(Tail(ls))

BigText == <<"B", "i", "g">>
SmallText == <<"S", "m", "a", "l", "l">>

-----------------------------------------------------------------------------
(* extract_game_data *)

\* Color without the test for zero.
ColorNoZero(n) == IF n % 2 = 1 THEN "red" ELSE "violet"

\* 'green' if n == 0 else 'red' if n % 2 == 1 else 'violet'
Color(n) == IF n = 0 THEN "green" ELSE IF n % 2 = 1 THEN "red" ELSE "violet"

\* lines = [line.strip() for line in body_text.split('\n') if line.strip()]
NonEmptyLines(text) ==
    LET raw == Split(text)
        stripped == [k \in 1..Len(raw) |-> Strip(raw[k])]
    IN  SelectSeq(stripped, LAMBDA l : Len(l) > 0)

\* The three candidates of the window that starts at (0-based) index i.
Line1(lines, i) == Remove(lines[i + 1], {" ", "-"})
Line2(lines, i) == Remove(lines[i + 2], {" "})
Line3(lines, i) == lines[i + 3]

CategoryOf(l) == IF l = BigText THEN "Big" ELSE "Small"

\* The condition of the if, evaluated left to right with short circuit:
\* int(line2) is reached only when the three tests before it hold.
PeriodOk(lines, i) == IsDigit(Line1(lines, i)) /\ Len(Line1(lines, i)) = PeriodLen
WindowRaises(lines, i) ==
    PeriodOk(lines, i) /\ IsDigit(Line2(lines, i)) /\ IntRaises(Line2(lines, i))
\* The condition without the upper limit on the draw.
WindowAcceptedNoLimit(lines, i) ==
    /\ PeriodOk(lines, i)
    /\ IsDigit(Line2(lines, i))
    /\ ~IntRaises(Line2(lines, i))
    /\ Line3(lines, i) \in {BigText, SmallText}

WindowAccepted(lines, i) ==
    /\ PeriodOk(lines, i)
    /\ IsDigit(Line2(lines, i))
    /\ ~IntRaises(Line2(lines, i))
    /\ IntOf(Line2(lines, i)) <= MaxDraw
    /\ Line3(lines, i) \in {BigText, SmallText}

Outcome(lines, i) ==
    [period    |-> Line1(lines, i),
     number    |-> IntOf(Line2(lines, i)),
     big_small |-> CategoryOf(Line3(lines, i)),
     color     |-> Color(IntOf(Line2(lines, i)))]

\* The while loop.  scan is the list of window indexes the loop tested and
\* accepted is the list of those it accepted (both kept for the properties;
\* the code returns data only).
\* The while loop with i += 1 in both branches.
RECURSIVE ScanFromStepOne(_, _, _, _, _)
ScanFromStepOne(lines, i, out, scan, accepted) ==
    IF ~(i < Len(lines) - 2)
    THEN [raised |-> FALSE, data |-> out, scan |-> scan, accepted |-> accepted]
    ELSE IF WindowRaises(lines, i)
    THEN [raised |-> TRUE, data |-> out, scan |-> Append(scan, i), accepted |-> accepted]
    ELSE IF WindowAccepted(lines, i)
    THEN ScanFromStepOne(lines, i + 1, Append(out, Outcome(lines, i)),
                         Append(scan, i), Append(accepted, i))
    ELSE ScanFromStepOne(lines, i + 1, out, Append(scan, i), accepted)

RECURSIVE ScanFrom(_, _, _, _, _)
ScanFrom(lines, i, out, scan, accepted) ==
    IF ~(i < Len(lines) - 2)
    THEN [raised |-> FALSE, data |-> out, scan |-> scan, accepted |-> accepted]
    ELSE IF WindowRaises(lines, i)
    THEN [raised |-> TRUE, data |-> out, scan |-> Append(scan, i), accepted |-> accepted]
    ELSE IF WindowAccepted(lines, i)
    THEN ScanFrom(lines, i + 3, Append(out, Outcome(lines, i)),
                  Append(scan, i), Append(accepted, i))
    ELSE ScanFrom(lines, i + 1, out, Append(scan, i), accepted)

Scan(text) == ScanFrom(NonEmptyLines(text), 0, <<>>, <<>>, <<>>)

\* extract_game_data: the list built by the loop, or [] when the body of the
\* try raised (the except branch returns an empty list).  The text
\* PageRaises stands for find_element / .text raising.
extract_game_data(text) ==
    IF text = PageRaises THEN <<>>
    ELSE IF Scan(text).raised THEN <<>>
    ELSE Scan(text).data

\* get_current_period: the first line that, stripped and with spaces and
\* hyphens removed, is 17 digits; None when there is none or on an exception.
RECURSIVE FirstPeriod(_, _)
FirstPeriod(raw, k) ==
    IF k > Len(raw) THEN None
    ELSE LET line == Remove(Strip(raw[k]), {" ", "-"})
         IN  IF IsDigit(line) /\ Len(line) = PeriodLen THEN line
             ELSE FirstPeriod(raw, k + 1)

get_current_period(text) ==
    IF text = PageRaises THEN None ELSE FirstPeriod(Split(text), 1)

-----------------------------------------------------------------------------
(* quantum_prediction_engine and its sub-models *)

\* results.count('Big')
RECURSIVE CountBig(_, _)
CountBig(results, k) ==
    IF k > Len(results) THEN 0
    ELSE (IF results[k] = "Big" THEN 1 ELSE 0) + CountBig(results, k + 1)

\* trend_analysis.  ratio = big_count / len(results) is compared with 0.6, 0.4
\* and 0.5; for the lengths that occur the quotient is never within a rounding
\* error of a threshold, so the comparisons are made exactly, cross-multiplied.
\* trend_analysis with >= 0.6 and <= 0.4 for the strong calls.
trend_analysis_inclusive(results) ==
    LET big_count == CountBig(results, 1)
        n == Len(results)
    IN  IF n = 0 THEN <<"Big", 65>>
        ELSE IF 10 * big_count >= 6 * n THEN <<"Big", 75>>
        ELSE IF 10 * big_count <= 4 * n THEN <<"Small", 75>>
        ELSE <<IF 2 * big_count >= n THEN "Big" ELSE "Small", 65>>

trend_analysis(results) ==
    LET big_count == CountBig(results, 1)
        n == Len(results)
    IN  IF n = 0 THEN <<"Big", 65>>                      \* ratio = 0.5
        ELSE IF 10 * big_count > 6 * n THEN <<"Big", 75>>
        ELSE IF 10 * big_count < 4 * n THEN <<"Small", 75>>
        ELSE <<IF 2 * big_count >= n THEN "Big" ELSE "Small", 65>>

\* The for loop of pattern_analysis: streak counts results[0] and the elements
\* after it up to the first that differs.
\* The loop without its break: every later element equal to results[0] counts.
RECURSIVE StreakNoBreak(_, _, _)
StreakNoBreak(results, i, streak) ==
    IF i > Len(results) THEN streak
    ELSE StreakNoBreak(results, i + 1,
                       streak + (IF results[i] = results[1] THEN 1 ELSE 0))

RECURSIVE Streak(_, _, _)
Streak(results, i, streak) ==
    IF i > Len(results) THEN streak
    ELSE IF results[i] = results[1] THEN Streak(results, i + 1, streak + 1)
    ELSE streak

pattern_analysis(results) ==
    IF Len(results) < 3 THEN <<"Small", 50>>
    ELSE IF Streak(results, 2, 1) >= 3
         THEN <<IF results[1] = "Big" THEN "Small" ELSE "Big", 70>>
         ELSE <<results[1], 60>>

\* statistical_analysis: big_count >= len(results) / 2
statistical_analysis(results) ==
    <<IF 2 * CountBig(results, 1) >= Len(results) THEN "Big" ELSE "Small", 65>>

\* A fallback that reports no confidence at all.
fallback_prediction_zero(td) ==
    [prediction |-> "Small", confidence |-> 0, strategy |-> "fallback",
     reasoning |-> "Insufficient data"]

fallback_prediction(td) ==
    [prediction |-> "Small", confidence |-> 50, strategy |-> "fallback",
     reasoning |-> "Insufficient data"]

Max2(a, b) == IF a >= b THEN a ELSE b

\* results = [game['big_small'] for game in training_data[:20]]
Results(td) ==
    [k \in 1..(IF Len(td) < TrendWindow THEN Len(td) ELSE TrendWindow) |-> td[k].big_small]

\* The engine with the guard one sample too low.
quantum_prediction_engine_short(td) ==
    IF Len(td) < MinSamples - 1 THEN fallback_prediction(td)
    ELSE LET results == Results(td)
             trend == trend_analysis(results)
             pattern == pattern_analysis(results)
             statistical == statistical_analysis(results)
         IN  [prediction |-> IF trend[2] > pattern[2] THEN trend[1] ELSE pattern[1],
              confidence |-> Max2(trend[2], Max2(pattern[2], statistical[2])),
              strategy   |-> "quantum_adaptive",
              reasoning  |-> <<trend, pattern>>]

\* The engine taking the category of the less confident sub-model.
quantum_prediction_engine_flipped(td) ==
    IF Len(td) < MinSamples THEN fallback_prediction(td)
    ELSE LET results == Results(td)
             trend == trend_analysis(results)
             pattern == pattern_analysis(results)
             statistical == statistical_analysis(results)
         IN  [prediction |-> IF trend[2] < pattern[2] THEN trend[1] ELSE pattern[1],
              confidence |-> Max2(trend[2], Max2(pattern[2], statistical[2])),
              strategy   |-> "quantum_adaptive",
              reasoning  |-> <<trend, pattern>>]

\* The reasoning string names the Trend and the Pattern result; it is kept as
\* the two pairs it is formatted from.
quantum_prediction_engine(td) ==
    IF Len(td) < MinSamples THEN fallback_prediction(td)
    ELSE LET results == Results(td)
             trend == trend_analysis(results)
             pattern == pattern_analysis(results)
             statistical == statistical_analysis(results)
         IN  [prediction |-> IF trend[2] > pattern[2] THEN trend[1] ELSE pattern[1],
              confidence |-> Max2(trend[2], Max2(pattern[2], statistical[2])),
              strategy   |-> "quantum_adaptive",
              reasoning  |-> <<trend, pattern>>]

\* The sub-models a call of quantum_prediction_engine runs.
SubModelsRun(td) ==
    IF Len(td) < MinSamples THEN {} ELSE {"trend", "pattern", "statistical"}

-----------------------------------------------------------------------------
(* Inputs: page texts and training lists *)

Rep(c, n) == [k \in 1..n |-> c]

PeriodA == Rep("1", PeriodLen)
PeriodB == Rep("2", PeriodLen)
\* PeriodB as a page may print it, grouped with a hyphen and a space.
GroupedB == Rep("2", 4) \o <<"-">> \o Rep("2", 4) \o <<" ">> \o Rep("2", PeriodLen - 8)
DrawLine(d) == <<CHOOSE c \in DecimalDigits : DigitValue(c) = d>>

\* Raw lines a free page is made of (before strip).
LineSamples ==
    { PeriodA, GroupedB, Rep("1", PeriodLen - 1),
      <<"5">>, <<"0", " ", "7">>, <<"^2">>,
      BigText, <<" ">> \o SmallText \o <<" ">>, <<>> }

FreePages == UNION {[1..n -> LineSamples] : n \in 0..MaxLines}

\* Blocks a longer page is made of: a period, a draw and the category the game
\* gives that draw (Big from 5 up), a result whose draw int() rejects, one
\* whose draw is above 9, one whose category is in lower case, one cut short,
\* and a line of noise.
Blocks ==
    { <<p, DrawLine(d), IF d >= 5 THEN BigText ELSE SmallText>> :
          p \in {PeriodA, GroupedB}, d \in 0..MaxDraw }
    \cup { <<PeriodA, <<"^2">>, BigText>>, <<PeriodA, <<"1", "2">>, BigText>>,
           <<PeriodA, <<"5">>, <<"b", "i", "g">>>>, <<PeriodA, <<"5">>>>,
           <<<<"b", "i", "g">>>> }

RECURSIVE Flatten(_)
Flatten(bs) == IF Len(bs) = 0 THEN <<>> ELSE bs[1] \o Flatten(Tail(bs))

BlockPages == {Flatten(bs) : bs \in UNION {[1..n -> Blocks] : n \in 1..MaxBlocks}}

PageTexts == {Join(p) : p \in FreePages \cup BlockPages}

\* Training lists: up to three runs of equal categories, which gives every
\* combination of first element, leading run, number of Big and length.
Other(c) == IF c = "Big" THEN "Small" ELSE "Big"
Row(c) == [big_small |-> c]
Runs(c, r, s, t) ==
    [k \in 1..(r + s + t) |-> Row(IF k <= r \/ k > r + s THEN c ELSE Other(c))]
TrainingLists ==
    { Runs(c, r, s, t) : c \in {"Big", "Small"},
          r \in 0..MaxHistory, s \in 0..MaxHistory, t \in 0..MaxHistory }

-----------------------------------------------------------------------------
(* Values of the variables a specification does not use *)

ExtractIdle ==
    body_text = <<>> /\ epc = "off" /\ data = <<>> /\ period_seen = None
EngineIdle ==
    /\ training_data = <<>> /\ gpc = "off" /\ prediction = fallback_prediction(<<>>)
    /\ invoked = {} /\ sub_out = <<"Small", 50>>
NoIteration ==
    [period |-> None, sent |-> FALSE, repeat |-> FALSE, error |-> FALSE,
     slept |-> 0, prediction |-> "Small", confidence |-> 50]
RunIdle ==
    /\ pc = "off" /\ cycle = 0 /\ db = <<>> /\ current_running_period = None
    /\ telegram_bot_token = FALSE /\ telegram_channel_id = FALSE
    /\ attempts = <<>> /\ requests_posted = 0 /\ send_result = FALSE
    /\ ignored = 0 /\ last = NoIteration
    /\ login_calls = 0 /\ navigate_calls = 0
LoopIdle ==
    /\ pc = "off" /\ cycle = 0 /\ db = <<>> /\ current_running_period = None
    /\ ignored = 0 /\ last = NoIteration
    /\ login_calls = 0 /\ navigate_calls = 0
SendIdle == post_outcome = "none" /\ send_raised = FALSE
NoDrag == <<>>
NoUrl == <<>>
NoPuzzle ==
    [found |-> FALSE, width |-> 0, drag |-> NoDrag, raised |-> FALSE,
     returned |-> FALSE]
SessionIdle ==
    /\ spc = "off" /\ sel = 0 /\ current_url = NoUrl /\ acts = {}
    /\ puzzle = NoPuzzle /\ scans = 0 /\ clicked = FALSE /\ visible = FALSE
    /\ screens_handled = 0 /\ login_result = "pending" /\ polls = 0
    /\ game_loaded = FALSE /\ tab_clicks = 0 /\ nav_result = "pending"
MainIdle == mpc = "off" /\ conn = "none" /\ driver = "none" /\ exit_path = "none"

-----------------------------------------------------------------------------
(* SpecExtract: the page readers applied to a page text *)

InitExtract ==
    /\ body_text \in PageTexts \cup {PageRaises}
    /\ epc = "init" /\ data = <<>> /\ period_seen = None
    /\ EngineIdle /\ RunIdle /\ SendIdle /\ SessionIdle /\ MainIdle

ExtractGameData ==
    /\ epc = "init"
    /\ data' = extract_game_data(body_text)
    /\ epc' = "extracted"
    /\ UNCHANGED <<body_text, period_seen, engineVars, runVars, otherVars>>

GetCurrentPeriod ==
    /\ epc = "extracted"
    /\ period_seen' = get_current_period(body_text)
    /\ epc' = "period"
    /\ UNCHANGED <<body_text, data, engineVars, runVars, otherVars>>

NextExtract == ExtractGameData \/ GetCurrentPeriod
SpecExtract == InitExtract /\ [][NextExtract]_vars

-----------------------------------------------------------------------------
(* SpecEngine: the engine and each sub-model applied to a training list *)

InitEngine ==
    /\ training_data \in {td \in TrainingLists : Len(td) <= MaxHistory}
    /\ gpc = "init" /\ prediction = fallback_prediction(<<>>)
    /\ invoked = {} /\ sub_out = <<"Small", 50>>
    /\ ExtractIdle /\ RunIdle /\ SendIdle /\ SessionIdle /\ MainIdle

QuantumPredictionEngine ==
    /\ gpc = "init"
    /\ prediction' = quantum_prediction_engine(training_data)
    /\ invoked' = SubModelsRun(training_data)
    /\ gpc' = "engine"
    /\ UNCHANGED <<training_data, sub_out, extractVars, runVars, otherVars>>

TrendAnalysis ==
    /\ gpc = "init"
    /\ sub_out' = trend_analysis(Results(training_data))
    /\ gpc' = "trend"
    /\ UNCHANGED <<training_data, prediction, invoked, extractVars, runVars, otherVars>>

PatternAnalysis ==
    /\ gpc = "init"
    /\ sub_out' = pattern_analysis(Results(training_data))
    /\ gpc' = "pattern"
    /\ UNCHANGED <<training_data, prediction, invoked, extractVars, runVars, otherVars>>

StatisticalAnalysis ==
    /\ gpc = "init"
    /\ sub_out' = statistical_analysis(Results(training_data))
    /\ gpc' = "statistical"
    /\ UNCHANGED <<training_data, prediction, invoked, extractVars, runVars, otherVars>>

NextEngine ==
    QuantumPredictionEngine \/ TrendAnalysis \/ PatternAnalysis \/ StatisticalAnalysis
SpecEngine == InitEngine /\ [][NextEngine]_vars

-----------------------------------------------------------------------------
(* The database: table quantum_game_results *)

GameType == "1M"

\* INSERT OR IGNORE with period TEXT UNIQUE: a row whose period is stored
\* already is dropped without an error.
PeriodStored(rows, period) == \E k \in 1..Len(rows) : rows[k].period = period
\* A plain INSERT into a table without the UNIQUE constraint.
InsertAlways(rows, row) == Append(rows, row)

InsertOrIgnore(rows, row) ==
    IF PeriodStored(rows, row.period) THEN rows ELSE Append(rows, row)

\* The for loop over game_data.  An execute that raises is swallowed by the
\* bare except and leaves the table as it was; failing holds the indexes of
\* the games whose execute raises.  now is the value of CURRENT_TIMESTAMP.
RECURSIVE SaveGames(_, _, _, _, _)
SaveGames(rows, game_data, k, failing, now) ==
    IF k > Len(game_data) THEN [rows |-> rows, ignored |-> 0]
    ELSE IF k \in failing THEN SaveGames(rows, game_data, k + 1, failing, now)
    ELSE LET game == game_data[k]
             row == [period |-> game.period, number |-> game.number,
                     big_small |-> game.big_small, color |-> game.color,
                     game_type |-> GameType, scraped_at |-> now]
             rest == SaveGames(InsertOrIgnore(rows, row), game_data, k + 1, failing, now)
         IN  [rows |-> rest.rows,
              ignored |-> rest.ignored + (IF PeriodStored(rows, row.period) THEN 1 ELSE 0)]

\* ORDER BY scraped_at DESC: every order of the row indexes in S in which
\* scraped_at never increases (rows of equal scraped_at come in any order).
RECURSIVE DescOrders(_, _)
DescOrders(rows, S) ==
    IF S = {} THEN {<<>>}
    ELSE LET top == {k \in S : \A j \in S : rows[k].scraped_at >= rows[j].scraped_at}
         IN  UNION {{<<k>> \o rest : rest \in DescOrders(rows, S \ {k})} : k \in top}

\* get_training_data: the lists the SELECT may return, or [] when it raises.
get_training_data(rows, raises) ==
    IF raises THEN {<<>>}
    ELSE { [k \in 1..(IF Len(o) < TrainingLimit THEN Len(o) ELSE TrainingLimit) |->
              [period |-> rows[o[k]].period, number |-> rows[o[k]].number,
               big_small |-> rows[o[k]].big_small]] :
           o \in DescOrders(rows, {k \in 1..Len(rows) : rows[k].game_type = GameType}) }

-----------------------------------------------------------------------------
(* send_telegram_message *)

\* What requests.post does: status 200, another status, or an exception.
SendOutcomes == {"200", "500", "exception"}

\* The same with the timeout (timeout=10) told apart from other exceptions.
PostOutcomes == SendOutcomes \cup {"timeout"}

\* The call without the test of the credentials.
TelegramCallNoGuard(token, channel, outcome) ==
    IF outcome \in {"timeout", "exception"}
    THEN [posted |-> TRUE, returned |-> FALSE, raised |-> FALSE]
    ELSE [posted |-> TRUE, returned |-> (outcome = "200"), raised |-> FALSE]

\* One call, by what requests.post does (outcome): whether a request was
\* posted, the value returned and whether an exception left the function.
\* requests.post raising (a timeout included) lands in except Exception.
TelegramCall(token, channel, outcome) ==
    IF ~token \/ ~channel
    THEN [posted |-> FALSE, returned |-> FALSE, raised |-> FALSE]
    ELSE IF outcome \in {"timeout", "exception"}
    THEN [posted |-> TRUE, returned |-> FALSE, raised |-> FALSE]
    ELSE [posted |-> TRUE, returned |-> (outcome = "200"), raised |-> FALSE]

\* Without a token or a channel id nothing is posted and False is returned;
\* otherwise one request is posted and the result is status_code == 200, or
\* False when the post raised.
send_telegram_message(kind, outcome) ==
    LET call == TelegramCall(telegram_bot_token, telegram_channel_id, outcome)
    IN  /\ attempts' = Append(attempts, kind)
        /\ requests_posted' = requests_posted + (IF call.posted THEN 1 ELSE 0)
        /\ send_result' = call.returned

\* SpecSend: calls of send_telegram_message on their own, with any message
\* and any behaviour of requests.post.
MessageKinds ==
    {"startup", "login_failed", "navigation_failed", "prediction", "completed",
     "crash"}

InitSend ==
    /\ telegram_bot_token \in BOOLEAN /\ telegram_channel_id \in BOOLEAN
    /\ attempts = <<>> /\ requests_posted = 0 /\ send_result = FALSE
    /\ LoopIdle /\ SendIdle /\ ExtractIdle /\ EngineIdle /\ SessionIdle /\ MainIdle

SendTelegramMessage ==
    /\ Len(attempts) < MaxSends
    /\ \E kind \in MessageKinds, outcome \in PostOutcomes :
          LET call == TelegramCall(telegram_bot_token, telegram_channel_id, outcome)
          IN  /\ send_telegram_message(kind, outcome)
              /\ post_outcome' = IF call.posted THEN outcome ELSE "none"
              /\ send_raised' = call.raised
    /\ UNCHANGED <<pc, cycle, db, current_running_period, telegram_bot_token,
                   telegram_channel_id, ignored, last, login_calls, navigate_calls,
                   extractVars, engineVars, sessionVars, mainVars>>

NextSend == SendTelegramMessage
SpecSend == InitSend /\ [][NextSend]_vars

-----------------------------------------------------------------------------
(* Spec: run_expert_system *)

\* Page texts the cycle loop may read.
RunTexts ==
    { <<>>,
      Join(<<PeriodA, <<"5">>, BigText>>),
      Join(<<GroupedB, <<"0">>, SmallText, PeriodA, <<"5">>, BigText>>),
      Join(<<PeriodA, <<"5">>, BigText, PeriodA, <<"7">>, BigText>>),
      Join(<<PeriodA, <<"^2">>, BigText>>),
      PageRaises }

\* What the two page readers return on each of them.
RunReads ==
    { [game_data |-> extract_game_data(t), period |-> get_current_period(t)] :
          t \in RunTexts }

\* quantum_data.db as an earlier run may have left it: ten results, one per
\* iteration of that run, the newest last.
SeedPeriod(d) == Rep("3", PeriodLen - 1) \o DrawLine(d)
SeedDb ==
    [d1 \in 1..MinSamples |->
        [period |-> SeedPeriod(d1 - 1), number |-> d1 - 1,
         big_small |-> IF d1 - 1 >= 5 THEN "Big" ELSE "Small",
         color |-> Color(d1 - 1), game_type |-> GameType,
         scraped_at |-> d1 - 1 - MinSamples]]

\* Level-triggered: notify whenever a period is on the page.
ShouldNotifyLevel(current_period, running) == current_period # None

\* if current_period and current_period != self.current_running_period
ShouldNotify(current_period, running) ==
    current_period # None /\ current_period # running

\* The marker kept only when the message was delivered.
RunningPeriodIfDelivered(current_period, running, delivered) ==
    IF delivered THEN current_period ELSE running

\* self.current_running_period = current_period, which follows the send
\* whatever send_telegram_message returned (delivered is not looked at).
RunningPeriodAfterSend(current_period, running, delivered) == current_period

\* The except branch of the loop with the sleep of the try branch.
IterationFailedLongSleep ==
    [NoIteration EXCEPT !.error = TRUE, !.slept = CycleSleep]

\* The except branch of the loop: the error is printed and the iteration
\* ends with the shorter sleep.
IterationFailed ==
    [NoIteration EXCEPT !.error = TRUE, !.slept = BackoffSleep]

\* The failure branch of the login without its return.
AfterLoginFailureNoReturn == "navigate"

\* The return that follows the login failure message.
AfterLoginFailure == "failed"

\* CURRENT_TIMESTAMP of an insert.  Timestamps are only ever compared (ORDER
\* BY scraped_at), so the clock is logical: later than everything stored.
RECURSIVE LatestStamp(_, _)
LatestStamp(rows, k) ==
    IF k > Len(rows) THEN 0
    ELSE LET rest == LatestStamp(rows, k + 1)
         IN  IF rows[k].scraped_at > rest THEN rows[k].scraped_at ELSE rest
Now(rows) == LatestStamp(rows, 1) + 1

Init ==
    /\ pc = "start" /\ cycle = 0
    /\ db \in {<<>>, SeedDb}
    /\ current_running_period = None
    /\ telegram_bot_token \in BOOLEAN /\ telegram_channel_id \in BOOLEAN
    /\ attempts = <<>> /\ requests_posted = 0 /\ send_result = FALSE
    /\ ignored = 0 /\ last = NoIteration
    /\ login_calls = 0 /\ navigate_calls = 0
    /\ ExtractIdle /\ EngineIdle /\ SendIdle /\ SessionIdle /\ MainIdle

\* The startup message.
Startup ==
    /\ pc = "start"
    /\ \E outcome \in SendOutcomes : send_telegram_message("startup", outcome)
    /\ pc' = "login"
    /\ UNCHANGED <<cycle, db, current_running_period, telegram_bot_token,
                   telegram_channel_id, ignored, last, login_calls, navigate_calls,
                   extractVars, engineVars, otherVars>>

\* if not self.perform_login(): send the failure message and return.
PerformLogin ==
    /\ pc = "login"
    /\ login_calls' = login_calls + 1
    /\ \E ok \in BOOLEAN :
          IF ok
          THEN /\ pc' = "navigate"
               /\ UNCHANGED <<attempts, requests_posted, send_result>>
          ELSE /\ pc' = AfterLoginFailure
               /\ \E outcome \in SendOutcomes :
                     send_telegram_message("login_failed", outcome)
    /\ UNCHANGED <<cycle, db, current_running_period, telegram_bot_token,
                   telegram_channel_id, ignored, last, navigate_calls,
                   extractVars, engineVars, otherVars>>

\* if not self.navigate_to_1m_game(): send the failure message and return.
NavigateTo1mGame ==
    /\ pc = "navigate"
    /\ navigate_calls' = navigate_calls + 1
    /\ \E ok \in BOOLEAN :
          IF ok
          THEN /\ pc' = "loop"
               /\ UNCHANGED <<attempts, requests_posted, send_result>>
          ELSE /\ pc' = "failed"
               /\ \E outcome \in SendOutcomes :
                     send_telegram_message("navigation_failed", outcome)
    /\ UNCHANGED <<cycle, db, current_running_period, telegram_bot_token,
                   telegram_channel_id, ignored, last, login_calls,
                   extractVars, engineVars, otherVars>>

\* First half of an iteration: extract_game_data, the inserts and the commit.
\* A commit that raises ends the iteration in the except branch.
ExtractAndSave ==
    /\ pc = "loop" /\ cycle < NumCycles
    /\ cycle' = cycle + 1
    /\ \E read \in RunReads :
          LET game_data == read.game_data
          IN  \E failing \in SUBSET (1..Len(game_data)), commit_raises \in BOOLEAN :
                LET saved == SaveGames(db, game_data, 1, failing, Now(db))
                IN  /\ db' = saved.rows
                    /\ ignored' = saved.ignored
                    /\ IF Len(game_data) > 0 /\ commit_raises
                       THEN /\ pc' = "loop"
                            /\ last' = IterationFailed
                       ELSE /\ pc' = "predict"
                            /\ last' = last
    /\ UNCHANGED <<current_running_period, telegram_bot_token, telegram_channel_id,
                   attempts, requests_posted, send_result, login_calls,
                   navigate_calls, extractVars, engineVars, otherVars>>

\* Second half: get_training_data, the engine, get_current_period and the
\* notification, then the sleep between iterations.
PredictAndNotify ==
    /\ pc = "predict"
    /\ \E select_raises \in BOOLEAN :
        \E td \in get_training_data(db, select_raises), read \in RunReads :
          LET prediction_data == quantum_prediction_engine(td)
              current_period == read.period
              notify == ShouldNotify(current_period, current_running_period)
          IN  /\ IF notify
                 THEN /\ \E outcome \in SendOutcomes :
                           send_telegram_message("prediction", outcome)
                      /\ current_running_period' =
                             RunningPeriodAfterSend(current_period,
                                                    current_running_period, send_result')
                 ELSE UNCHANGED <<attempts, requests_posted, send_result,
                                  current_running_period>>
              /\ last' = [period |-> current_period, sent |-> notify,
                          repeat |-> current_period # None /\ current_period = last.period,
                          error |-> FALSE, slept |-> CycleSleep,
                          prediction |-> prediction_data.prediction,
                          confidence |-> prediction_data.confidence]
    /\ pc' = "loop"
    /\ UNCHANGED <<cycle, db, telegram_bot_token, telegram_channel_id, ignored,
                   login_calls, navigate_calls, extractVars, engineVars, otherVars>>

\* The loop left one iteration early.
LoopFinishedEarly(c) == c >= NumCycles - 1

\* for cycle in range(5) is exhausted.
LoopFinished(c) == c = NumCycles

\* After the loop: the completion message.
Complete ==
    /\ pc = "loop" /\ LoopFinished(cycle)
    /\ \E outcome \in SendOutcomes : send_telegram_message("completed", outcome)
    /\ pc' = "done"
    /\ UNCHANGED <<cycle, db, current_running_period, telegram_bot_token,
                   telegram_channel_id, ignored, last, login_calls, navigate_calls,
                   extractVars, engineVars, otherVars>>

Next ==
    \/ Startup \/ PerformLogin \/ NavigateTo1mGame
    \/ ExtractAndSave \/ PredictAndNotify \/ Complete

Spec == Init /\ [][Next]_vars

\* The run as the interpreter executes it: a statement that can run does run.
FairSpec == Spec /\ WF_vars(Next)

-----------------------------------------------------------------------------
(* perform_login and navigate_to_1m_game: SpecSession *)

\* URLs the browser may show after the first page load.
HomeUrl == <<"/", "#", "/">>
LoginUrl == <<"/", "l", "o", "g", "i", "n">>
UpperLoginUrl == <<"/", "L", "o", "g", "i", "n">>
UrlSamples == {HomeUrl, LoginUrl, UpperLoginUrl}

\* str.lower() on the letters the samples use.
LowerChar(c) ==
    IF c = "L" THEN "l" ELSE c
Lower(str) == [k \in 1..Len(str) |-> LowerChar(str[k])]

\* needle in hay
Contains(hay, needle) ==
    \E k \in 0..(Len(hay) - Len(needle)) :
        \A j \in 1..Len(needle) : hay[k + j] = needle[j]

\* The already-logged-in test that never holds.
AlreadyLoggedInNever(url) == FALSE

\* "login" not in self.driver.current_url.lower()
AlreadyLoggedIn(url) == ~Contains(Lower(url), <<"l", "o", "g", "i", "n">>)

\* The drag over the full width of the element.
DragOffsetFullWidth(width) == <<width, 0>>

\* actions.move_by_offset(drag_distance, 0) with drag_distance = width - 10
DragOffset(width) == <<width - DragMargin, 0>>

\* Widths of the puzzle element.
Widths == {5, 300}

\* handle_puzzle_verification.  found_at is the first selector the wait found
\* clickable (0: every wait timed out); gesture says where the handling of a
\* found element raised, if it did.  Everything is inside try / except
\* Exception, so the function returns False instead of raising.
handle_puzzle_verification(found_at, width, gesture) ==
    IF found_at = 0 THEN NoPuzzle
    ELSE IF gesture = "size_raises"
    THEN [found |-> TRUE, width |-> width, drag |-> NoDrag, raised |-> TRUE,
          returned |-> FALSE]
    ELSE [found |-> TRUE, width |-> width, drag |-> DragOffset(width),
          raised |-> (gesture = "perform_raises"),
          returned |-> (gesture = "ok")]

\* The selector loop of a scan going on after a click.
NextSelectorNoBreak(k, did_click) ==
    IF k < NumConfirmationSelectors THEN k + 1 ELSE 0

\* The selector a scan tries after selector k: none (0) after a click (the
\* two breaks) and after the last selector.
NextSelector(k, did_click) ==
    IF did_click THEN 0
    ELSE IF k < NumConfirmationSelectors THEN k + 1 ELSE 0

\* The value returned when no tab was clicked, as a failure.
NavigateWithoutTabFails == "False"

\* return True after the tab loop found nothing to click.
NavigateWithoutTab == "True"

InitSession ==
    /\ spc = "login_get" /\ sel = 0 /\ current_url = NoUrl /\ acts = {}
    /\ puzzle = NoPuzzle /\ scans = 0 /\ clicked = FALSE /\ visible = FALSE
    /\ screens_handled = 0 /\ login_result = "pending" /\ polls = 0
    /\ game_loaded = FALSE /\ tab_clicks = 0 /\ nav_result = "pending"
    /\ ExtractIdle /\ EngineIdle /\ RunIdle /\ SendIdle /\ MainIdle

\* perform_login up to the already-logged-in test.  An exception of
\* driver.get or current_url reaches the outer except: return False.
LoginGet ==
    /\ spc = "login_get"
    /\ \E load \in {"get_raises", "url_raises", "ok"}, url \in UrlSamples :
          IF load # "ok"
          THEN /\ login_result' = "False" /\ spc' = "login_done"
               /\ UNCHANGED <<current_url, sel>>
          ELSE /\ current_url' = url
               /\ IF AlreadyLoggedIn(url)
                  THEN login_result' = "True" /\ spc' = "login_done" /\ sel' = sel
                  ELSE login_result' = login_result /\ spc' = "username" /\ sel' = 1
    /\ UNCHANGED <<acts, puzzle, scans, clicked, visible, screens_handled, polls,
                   game_loaded, tab_clicks, nav_result,
                   extractVars, engineVars, runVars, sendVars, mainVars>>

\* One pass of the username loop: the lookup or the fill raises (continue),
\* or the field is filled (break).
FillUsername ==
    /\ spc = "username"
    /\ \E outcome \in {"raises", "filled"} :
          IF outcome = "filled"
          THEN acts' = acts \cup {"username"} /\ spc' = "password" /\ sel' = 1
          ELSE /\ acts' = acts
               /\ IF sel < NumUsernameSelectors
                  THEN spc' = spc /\ sel' = sel + 1
                  ELSE spc' = "password" /\ sel' = 1
    /\ UNCHANGED <<current_url, puzzle, scans, clicked, visible, screens_handled,
                   login_result, polls, game_loaded, tab_clicks, nav_result,
                   extractVars, engineVars, runVars, sendVars, mainVars>>

\* One pass of the password loop.
FillPassword ==
    /\ spc = "password"
    /\ \E outcome \in {"raises", "filled"} :
          IF outcome = "filled"
          THEN acts' = acts \cup {"password"} /\ spc' = "submit" /\ sel' = 1
          ELSE /\ acts' = acts
               /\ IF sel < NumPasswordSelectors
                  THEN spc' = spc /\ sel' = sel + 1
                  ELSE spc' = "submit" /\ sel' = 1
    /\ UNCHANGED <<current_url, puzzle, scans, clicked, visible, screens_handled,
                   login_result, polls, game_loaded, tab_clicks, nav_result,
                   extractVars, engineVars, runVars, sendVars, mainVars>>

\* One pass of the login button loop.
ClickLogin ==
    /\ spc = "submit"
    /\ \E outcome \in {"raises", "clicked"} :
          IF outcome = "clicked"
          THEN acts' = acts \cup {"submit"} /\ spc' = "puzzle" /\ sel' = 0
          ELSE /\ acts' = acts
               /\ IF sel < NumLoginSelectors
                  THEN spc' = spc /\ sel' = sel + 1
                  ELSE spc' = "puzzle" /\ sel' = 0
    /\ UNCHANGED <<current_url, puzzle, scans, clicked, visible, screens_handled,
                   login_result, polls, game_loaded, tab_clicks, nav_result,
                   extractVars, engineVars, runVars, sendVars, mainVars>>

\* self.handle_puzzle_verification(): the value returned is dropped.
HandlePuzzleVerification ==
    /\ spc = "puzzle"
    /\ \E found_at \in 0..NumPuzzleSelectors, width \in Widths,
          gesture \in {"ok", "size_raises", "perform_raises"} :
          puzzle' = handle_puzzle_verification(found_at, width, gesture)
    /\ spc' = "confirm" /\ sel' = 0
    /\ UNCHANGED <<current_url, acts, scans, clicked, visible, screens_handled,
                   login_result, polls, game_loaded, tab_clicks, nav_result,
                   extractVars, engineVars, runVars, sendVars, mainVars>>

\* handle_confirmation_screens: one more pass of for _ in range(max_screens),
\* taken at the start and after a scan that clicked.
ConfirmScanStart ==
    /\ spc = "confirm" /\ sel = 0
    /\ scans < max_screens /\ (scans = 0 \/ clicked)
    /\ scans' = scans + 1 /\ clicked' = FALSE /\ visible' = FALSE /\ sel' = 1
    /\ UNCHANGED <<spc, current_url, acts, puzzle, screens_handled, login_result,
                   polls, game_loaded, tab_clicks, nav_result,
                   extractVars, engineVars, runVars, sendVars, mainVars>>

\* One selector of a scan: find_elements or is_displayed raises, no button
\* is displayed, the click of a displayed button raises, or a displayed
\* button is clicked.
ConfirmTrySelector ==
    /\ spc = "confirm" /\ sel >= 1
    /\ \E outcome \in {"raises", "none_visible", "click_raises", "clicked"} :
          /\ visible' = (visible \/ outcome \in {"click_raises", "clicked"})
          /\ clicked' = (outcome = "clicked")
          /\ screens_handled' = screens_handled + (IF outcome = "clicked" THEN 1 ELSE 0)
          /\ sel' = NextSelector(sel, outcome = "clicked")
    /\ UNCHANGED <<spc, current_url, acts, puzzle, scans, login_result,
                   polls, game_loaded, tab_clicks, nav_result,
                   extractVars, engineVars, runVars, sendVars, mainVars>>

\* The scan loop is over (a scan clicked nothing, or max_screens scans ran):
\* handle_confirmation_screens returns and perform_login returns True.
ConfirmReturn ==
    /\ spc = "confirm" /\ sel = 0 /\ scans > 0
    /\ ~(scans < max_screens /\ clicked)
    /\ login_result' = "True" /\ spc' = "login_done"
    /\ UNCHANGED <<sel, current_url, acts, puzzle, scans, clicked, visible,
                   screens_handled, polls, game_loaded, tab_clicks, nav_result,
                   extractVars, engineVars, runVars, sendVars, mainVars>>

\* navigate_to_1m_game, called after a login that returned True: the page
\* load.  An exception reaches the outer except: return False.
NavigateGet ==
    /\ spc = "login_done" /\ login_result = "True"
    /\ \E load \in {"get_raises", "ok"} :
          IF load = "ok"
          THEN spc' = "poll" /\ nav_result' = nav_result
          ELSE spc' = "nav_done" /\ nav_result' = "False"
    /\ UNCHANGED <<sel, current_url, acts, puzzle, scans, clicked, visible,
                   screens_handled, login_result, polls, game_loaded, tab_clicks,
                   extractVars, engineVars, runVars, sendVars, mainVars>>

\* One pass of the polling loop: the read of the page text raises, the text
\* holds an indicator (break), or it does not (sleep and go on).
Poll ==
    /\ spc = "poll" /\ polls < MaxPolls
    /\ polls' = polls + 1
    /\ \E outcome \in {"raises", "indicator", "no_indicator"} :
          /\ game_loaded' = (outcome = "indicator")
          /\ spc' = IF outcome = "raises" THEN "nav_done"
                    ELSE IF outcome = "indicator" THEN "tabs" ELSE spc
          /\ sel' = IF outcome = "indicator" THEN 1 ELSE sel
          /\ nav_result' = IF outcome = "raises" THEN "False" ELSE nav_result
    /\ UNCHANGED <<current_url, acts, puzzle, scans, clicked, visible,
                   screens_handled, login_result, tab_clicks,
                   extractVars, engineVars, runVars, sendVars, mainVars>>

\* if not game_loaded: return False
PollGiveUp ==
    /\ spc = "poll" /\ polls = MaxPolls
    /\ spc' = "nav_done" /\ nav_result' = "False"
    /\ UNCHANGED <<sel, current_url, acts, puzzle, scans, clicked, visible,
                   screens_handled, login_result, polls, game_loaded, tab_clicks,
                   extractVars, engineVars, runVars, sendVars, mainVars>>

\* One selector of the tab loop; a click that succeeds returns True at once,
\* and so does the end of the loop.
TryTab ==
    /\ spc = "tabs"
    /\ \E outcome \in {"raises", "none_visible", "click_raises", "clicked"} :
          IF outcome = "clicked"
          THEN /\ tab_clicks' = tab_clicks + 1
               /\ spc' = "nav_done" /\ nav_result' = "True" /\ sel' = 0
          ELSE /\ tab_clicks' = tab_clicks
               /\ IF sel < NumTabSelectors
                  THEN spc' = spc /\ sel' = sel + 1 /\ nav_result' = nav_result
                  ELSE spc' = "nav_done" /\ sel' = 0
                       /\ nav_result' = NavigateWithoutTab
    /\ UNCHANGED <<current_url, acts, puzzle, scans, clicked, visible,
                   screens_handled, login_result, polls, game_loaded,
                   extractVars, engineVars, runVars, sendVars, mainVars>>

NextSession ==
    \/ LoginGet \/ FillUsername \/ FillPassword \/ ClickLogin
    \/ HandlePuzzleVerification
    \/ ConfirmScanStart \/ ConfirmTrySelector \/ ConfirmReturn
    \/ NavigateGet \/ Poll \/ PollGiveUp \/ TryTab

SpecSession == InitSession /\ [][NextSession]_vars

\* The calls as the interpreter executes them: a statement that can run does.
FairSession == SpecSession /\ WF_vars(NextSession)

-----------------------------------------------------------------------------
(* The main block, __init__ and close(): SpecMain *)

InitMain ==
    /\ mpc = "init_db" /\ conn = "none" /\ driver = "none" /\ exit_path = "none"
    /\ telegram_bot_token \in BOOLEAN /\ telegram_channel_id \in BOOLEAN
    /\ attempts = <<>> /\ requests_posted = 0 /\ send_result = FALSE
    /\ LoopIdle /\ SendIdle /\ SessionIdle /\ ExtractIdle /\ EngineIdle

\* setup_quantum_database, called by __init__.  Its except branch re-raises,
\* and the constructor call of the main block is outside the try, so the
\* program ends there; when it was an execute or the commit that raised, the
\* connection had been opened.
SetupQuantumDatabase ==
    /\ mpc = "init_db"
    /\ \E step \in {"connect_raises", "execute_raises", "ok"} :
          /\ conn' = IF step = "connect_raises" THEN "none" ELSE "open"
          /\ mpc' = IF step = "ok" THEN "init_browser" ELSE "exit"
          /\ exit_path' = IF step = "ok" THEN exit_path ELSE "init_failed"
    /\ UNCHANGED <<driver, extractVars, engineVars, runVars, sendVars, sessionVars>>

\* setup_browser, called by __init__ after the database is set up; its
\* except branch re-raises as well.
SetupBrowser ==
    /\ mpc = "init_browser"
    /\ \E step \in {"chrome_raises", "ok"} :
          /\ driver' = IF step = "ok" THEN "open" ELSE "none"
          /\ mpc' = IF step = "ok" THEN "run" ELSE "exit"
          /\ exit_path' = IF step = "ok" THEN exit_path ELSE "init_failed"
    /\ UNCHANGED <<conn, extractVars, engineVars, runVars, sendVars, sessionVars>>

\* system.run_expert_system() up to its startup message.
RunStart ==
    /\ mpc = "run"
    /\ \E outcome \in SendOutcomes : send_telegram_message("startup", outcome)
    /\ mpc' = "running"
    /\ UNCHANGED <<conn, driver, exit_path, pc, cycle, db, current_running_period,
                   telegram_bot_token, telegram_channel_id, ignored, last,
                   login_calls, navigate_calls,
                   extractVars, engineVars, sendVars, sessionVars>>

\* The ways run_expert_system ends: it returns after its last message (the
\* completion message or a failure message), an Exception leaves it (caught
\* by the main block), or something that is not an Exception does, such as a
\* KeyboardInterrupt (only the finally clause runs).
RunEnd ==
    /\ mpc = "running"
    /\ \E end \in {"completed", "login_failed", "navigation_failed", "raised",
                   "interrupted"} :
          /\ exit_path' = end
          /\ IF end \in {"raised", "interrupted"}
             THEN /\ mpc' = IF end = "raised" THEN "crash" ELSE "close"
                  /\ UNCHANGED <<attempts, requests_posted, send_result>>
             ELSE /\ mpc' = "close"
                  /\ \E outcome \in SendOutcomes : send_telegram_message(end, outcome)
    /\ UNCHANGED <<conn, driver, pc, cycle, db, current_running_period,
                   telegram_bot_token, telegram_channel_id, ignored, last,
                   login_calls, navigate_calls,
                   extractVars, engineVars, sendVars, sessionVars>>

\* except Exception of the main block: the crash message.
CrashMessage ==
    /\ mpc = "crash"
    /\ \E outcome \in SendOutcomes : send_telegram_message("crash", outcome)
    /\ mpc' = "close"
    /\ UNCHANGED <<conn, driver, exit_path, pc, cycle, db, current_running_period,
                   telegram_bot_token, telegram_channel_id, ignored, last,
                   login_calls, navigate_calls,
                   extractVars, engineVars, sendVars, sessionVars>>

\* finally: system.close().  conn.close() and driver.quit() share one try:
\* when conn.close() raises, driver.quit() is not called, and the bare except
\* swallows the exception.  A quit() that raised may or may not have ended
\* the browser.
Close ==
    /\ mpc = "close"
    /\ \E step \in {"ok", "conn_close_raises", "quit_raises"} :
          /\ conn' = IF step = "conn_close_raises" THEN conn ELSE "closed"
          /\ IF step = "ok" THEN driver' = "quit"
             ELSE IF step = "conn_close_raises" THEN driver' = driver
             ELSE driver' \in {"open", "quit"}
    /\ mpc' = "exit"
    /\ UNCHANGED <<exit_path, extractVars, engineVars, runVars, sendVars, sessionVars>>

NextMain ==
    \/ SetupQuantumDatabase \/ SetupBrowser
    \/ RunStart \/ RunEnd \/ CrashMessage \/ Close

SpecMain == InitMain /\ [][NextMain]_vars

-----------------------------------------------------------------------------
(* Properties *)

\* C1 (Spec): an iteration hands a prediction message to the dispatcher only
\* if the period it read is not None and differs from current_running_period
\* as it was before the iteration, it hands over at most one, and two
\* consecutive iterations that read the same period send at most one
\* prediction message between them.
C1_EdgeTriggered ==
    [][ (pc = "predict" /\ pc' = "loop") =>
          /\ last'.sent =>
                /\ last'.period # None
                /\ last'.period # current_running_period
                /\ attempts' = Append(attempts, "prediction")
          /\ ~last'.sent => attempts' = attempts
          /\ (last'.period # None /\ last'.period = last.period) =>
                ~(last.sent /\ last'.sent) ]_vars

\* C1 witness: an iteration read the period the iteration before it read and
\* sent nothing.
C1_RepeatSuppressed ==
    /\ pc = "loop" /\ cycle >= 2
    /\ last.repeat /\ ~last.sent
    /\ last.period = current_running_period
    /\ "prediction" \in {attempts[k] : k \in 1..Len(attempts)}

\* C2 (SpecEngine): on fewer than 10 samples the engine returns Small at 0.5
\* with strategy fallback, whatever the samples are, and runs no sub-model.
C2_FallbackBelowTen ==
    (gpc = "engine" /\ Len(training_data) < 10) =>
        /\ prediction.prediction = "Small"
        /\ prediction.confidence = 50
        /\ prediction.strategy = "fallback"
        /\ invoked = {}

\* C2 witness: nine samples, all Big, and the engine still answered Small.
C2_NineBigStillSmall ==
    /\ gpc = "engine" /\ Len(training_data) = 9
    /\ \A k \in 1..9 : training_data[k].big_small = "Big"
    /\ prediction.prediction = "Small" /\ prediction.confidence = 50

\* C3 (Spec): the table never holds two rows with the same period.
C3_OneRowPerPeriod ==
    \A j, k \in 1..Len(db) : db[j].period = db[k].period => j = k

\* C3 witness: the persistence step met a period that was stored already,
\* went on without an error, and the table holds that period once.
C3_DuplicateIgnored ==
    /\ pc = "predict" /\ ignored > 0
    /\ Cardinality({k \in 1..Len(db) : db[k].period = PeriodA}) = 1

\* C4 (SpecExtract), as the claim states it: no two Outcomes of one
\* extraction share a period.
C4_NoDuplicatePeriods ==
    epc # "init" =>
        \A j, k \in 1..Len(data) : data[j].period = data[k].period => j = k

\* The window test as C5 words it, on the trimmed lines as they are.
RawAccept(lines, i) ==
    /\ IsDigit(lines[i + 1]) /\ Len(lines[i + 1]) = 17
    /\ IsDigit(lines[i + 2]) /\ ~IntRaises(lines[i + 2]) /\ IntOf(lines[i + 2]) <= 9
    /\ lines[i + 3] \in {BigText, SmallText}

\* The window test on the normalised lines: spaces and hyphens removed from
\* the first line, spaces from the second.
NormalisedAccept(lines, i) ==
    LET p == SelectSeq(lines[i + 1], LAMBDA c : c # " " /\ c # "-")
        d == SelectSeq(lines[i + 2], LAMBDA c : c # " ")
    IN  /\ Len(p) = 17 /\ \A k \in 1..17 : p[k] \in DecimalDigits \cup OtherDigits
        /\ Len(d) > 0 /\ \A k \in 1..Len(d) : d[k] \in DecimalDigits
        /\ \A k \in 1..(Len(d) - 1) : d[k] = "0"
        /\ lines[i + 3] = BigText \/ lines[i + 3] = SmallText

SeqRange(q) == {q[k] : k \in 1..Len(q)}

C6_ColorOfDraw ==
    epc # "init" =>
        \A k \in 1..Len(data) :
            LET v == data[k].number
            IN  /\ v \in 0..9
                /\ v = 0 => data[k].color = "green"
                /\ v \in {1, 3, 5, 7, 9} => data[k].color = "red"
                /\ v \in {2, 4, 6, 8} => data[k].color = "violet"

\* C6 witness: one extraction returned an Outcome of draw 0, green, and one
\* of draw 8, violet.
C6_GreenAndViolet ==
    /\ epc # "init"
    /\ \E j, k \in 1..Len(data) :
          /\ data[j].number = 0 /\ data[j].color = "green"
          /\ data[k].number = 8 /\ data[k].color = "violet"

\* The window the engine hands to the sub-models and the number of Big in it.
First20(td) == SubSeq(td, 1, IF Len(td) < 20 THEN Len(td) ELSE 20)
BigIn(td) == Cardinality({k \in 1..Len(td) : td[k].big_small = "Big"})

\* C7 (SpecEngine): on the first 20 rows, Trend answers (Big, 0.75) when more
\* than 0.6 of them are Big, (Small, 0.75) when fewer than 0.4 are, and
\* otherwise 0.65 for Big when at least half are Big and for Small when not;
\* 15 Big out of 20 gives (Big, 0.75).
C7_TrendThresholds ==
    (gpc = "trend" /\ Len(training_data) > 0) =>
        LET w == First20(training_data)
            n == Len(w)
            b == BigIn(w)
        IN  /\ n <= 20
            /\ 10 * b > 6 * n => sub_out = <<"Big", 75>>
            /\ 10 * b < 4 * n => sub_out = <<"Small", 75>>
            /\ (10 * b <= 6 * n /\ 2 * b >= n) => sub_out = <<"Big", 65>>
            /\ (10 * b >= 4 * n /\ 2 * b < n) => sub_out = <<"Small", 65>>
            /\ (n = 20 /\ b = 15) => sub_out = <<"Big", 75>>

\* C7 witness: 15 Big and 5 Small in 20 rows, and Trend answered (Big, 0.75).
C7_FifteenOfTwenty ==
    /\ gpc = "trend" /\ Len(training_data) = 20
    /\ BigIn(training_data) = 15
    /\ sub_out = <<"Big", 75>>

\* The length of the maximal prefix of elements equal to the first.
LeadingRun(w) ==
    CHOOSE m \in 1..Len(w) :
        /\ \A k \in 1..m : w[k].big_small = w[1].big_small
        /\ m = Len(w) \/ w[m + 1].big_small # w[1].big_small

\* C8 (SpecEngine): on a window of at least 3, Pattern answers the opposite
\* of the first element at 0.70 when the leading run is 3 or longer, and the
\* first element at 0.60 when it is shorter.
C8_PatternLeadingRun ==
    (gpc = "pattern" /\ Len(training_data) >= 3) =>
        LET w == First20(training_data)
            first == w[1].big_small
        IN  /\ LeadingRun(w) >= 3 =>
                  sub_out = <<IF first = "Big" THEN "Small" ELSE "Big", 70>>
            /\ LeadingRun(w) < 3 => sub_out = <<first, 60>>

\* C8 witness: a window that starts Big, Big, Big, Small, and Pattern
\* answered (Small, 0.70).
C8_ThreeBigThenSmall ==
    /\ gpc = "pattern" /\ Len(training_data) >= 5
    /\ \A k \in 1..3 : training_data[k].big_small = "Big"
    /\ training_data[4].big_small = "Small"
    /\ training_data[Len(training_data)].big_small = "Big"
    /\ sub_out = <<"Small", 70>>

\* C9 (SpecEngine): on 10 samples or more the engine's category is that of
\* the more confident of Trend and Pattern (their confidences never tie), its
\* confidence is the largest of the Trend, Pattern and Statistical
\* confidences, and the Statistical category plays no part.
C9_ArgMaxFusion ==
    (gpc = "engine" /\ Len(training_data) >= 10) =>
        LET w == [k \in 1..Len(First20(training_data)) |->
                      First20(training_data)[k].big_small]
            t == trend_analysis(w)
            p == pattern_analysis(w)
            sconf == 65
            top == CHOOSE c \in {t[2], p[2], sconf} :
                       \A e \in {t[2], p[2], sconf} : c >= e
        IN  /\ t[2] # p[2]
            /\ t[2] > p[2] => prediction.prediction = t[1]
            /\ p[2] > t[2] => prediction.prediction = p[1]
            /\ prediction.confidence = top
            /\ prediction.strategy = "quantum_adaptive"
            /\ invoked = {"trend", "pattern", "statistical"}

\* C9 witness: five Big then five Small: Statistical says Big (half are
\* Big), Pattern says Small at 0.70 against Trend's 0.65, and the engine
\* answered Small at 0.70.
C9_StatisticalOverruled ==
    /\ gpc = "engine" /\ Len(training_data) = 10
    /\ \A k \in 1..5 : training_data[k].big_small = "Big"
    /\ \A k \in 6..10 : training_data[k].big_small = "Small"
    /\ prediction.prediction = "Small" /\ prediction.confidence = 70

\* C10 (SpecEngine): whatever the history, the engine's category is Big or
\* Small and its confidence lies between 0.5 and 1.0.
C10_PredictionRange ==
    gpc = "engine" =>
        /\ prediction.prediction \in {"Big", "Small"}
        /\ prediction.confidence >= 50 /\ prediction.confidence <= 100

\* C10 witness: the engine answered at the lower end, 0.5, on an empty history.
C10_LowestConfidence ==
    /\ gpc = "engine" /\ Len(training_data) = 0
    /\ prediction.confidence = 50

\* C11 (Spec): a failed login or navigation ends the run in Failed: no
\* iteration has run and none runs afterwards, no prediction message was
\* handed to the dispatcher, the last message attempted is the failure
\* notification, and perform_login and navigate_to_1m_game have each been
\* called at most once (after a failed login, navigation not at all).
C11_FailedSession ==
    /\ [](/\ login_calls <= 1 /\ navigate_calls <= 1
          /\ pc = "failed" =>
                /\ cycle = 0 /\ last = NoIteration
                /\ "prediction" \notin SeqRange(attempts)
                /\ attempts[Len(attempts)] \in {"login_failed", "navigation_failed"}
          /\ "login_failed" \in SeqRange(attempts) =>
                pc = "failed" /\ navigate_calls = 0
          /\ "navigation_failed" \in SeqRange(attempts) =>
                pc = "failed" /\ login_calls = 1 /\ navigate_calls = 1)
    /\ [][pc # "failed"]_vars

\* C11 witness: the run stopped after a failed login.
C11_LoginFailed ==
    /\ pc = "failed" /\ login_calls = 1 /\ navigate_calls = 0
    /\ attempts = <<"startup", "login_failed">>

C20_MarkerFollowsAttempt ==
    /\ []("prediction" \notin SeqRange(attempts) => current_running_period = None)
    /\ [][ /\ (pc = "predict" /\ pc' = "loop") =>
                 /\ last'.sent =>
                       /\ attempts' = Append(attempts, "prediction")
                       /\ current_running_period' = last'.period
                 /\ ~last'.sent =>
                       /\ current_running_period' = current_running_period
                       /\ attempts' = attempts
                 /\ last'.period = current_running_period => ~last'.sent
                 /\ last'.period = None => ~last'.sent
           /\ ~(pc = "predict" /\ pc' = "loop") =>
                 current_running_period' = current_running_period ]_vars

\* C20 witness: the prediction for a period was posted and not delivered, and
\* the next iteration read the same period and sent nothing.
C20_FailedNotRetried ==
    /\ pc = "loop" /\ last.repeat /\ ~last.sent
    /\ last.period = current_running_period
    /\ telegram_bot_token /\ telegram_channel_id
    /\ attempts[Len(attempts)] = "prediction" /\ ~send_result

\* C19 (SpecExtract): the scan starts at the first line; the window after an
\* accepted one starts 3 lines later and the window after a rejected one 1
\* line later; the scan tests at most one window per line and stops only at
\* the end of the lines or where int() raised; accepted windows are at least
\* 3 lines apart; and the Outcomes returned are those of the accepted
\* windows in the order of the page.
C19_WindowAdvance ==
    (epc # "init" /\ body_text # PageRaises) =>
        LET lines == NonEmptyLines(body_text)
            sc == Scan(body_text)
            n == Len(sc.scan)
            Step(i) == IF i \in SeqRange(sc.accepted) THEN 3 ELSE 1
        IN  /\ n = 0 <=> Len(lines) < 3
            /\ n > 0 => sc.scan[1] = 0
            /\ \A k \in 1..(n - 1) : sc.scan[k + 1] = sc.scan[k] + Step(sc.scan[k])
            /\ \A k \in 1..n : sc.scan[k] < Len(lines) - 2
            /\ n <= Len(lines)
            /\ (n > 0 /\ ~sc.raised) => sc.scan[n] + Step(sc.scan[n]) >= Len(lines) - 2
            /\ \A j, k \in 1..Len(sc.accepted) :
                  j < k => sc.accepted[j] + 3 <= sc.accepted[k]
            /\ ~sc.raised =>
                  /\ Len(data) = Len(sc.accepted)
                  /\ \A k \in 1..Len(data) : data[k] = Outcome(lines, sc.accepted[k])

\* C19 witness: a page of two triples; the second window tested is the one 3
\* lines after the first and both are returned, in page order.
C19_TwoTriples ==
    /\ epc # "init" /\ body_text # PageRaises
    /\ Scan(body_text).scan = <<0, 3>>
    /\ Len(data) = 2
    /\ data[1].period = PeriodA /\ data[2].period = PeriodB

\* C15 (SpecSend): no call lets an exception out and every call returns True
\* or False; with the token or the channel id absent it posts no request and
\* returns False; with both present it posts exactly one request and returns
\* True exactly when the response status is 200 (False for another status,
\* a timeout or any other exception).
C15_SendNeverRaises ==
    [][ attempts' # attempts =>
          /\ ~send_raised'
          /\ send_result' \in BOOLEAN
          /\ (~telegram_bot_token \/ ~telegram_channel_id) =>
                /\ requests_posted' = requests_posted
                /\ post_outcome' = "none"
                /\ send_result' = FALSE
          /\ (telegram_bot_token /\ telegram_channel_id) =>
                /\ requests_posted' = requests_posted + 1
                /\ post_outcome' \in {"200", "500", "timeout", "exception"}
                /\ send_result' = (post_outcome' = "200") ]_vars

\* C15 witness: with both credentials set the request timed out, and the
\* call returned False.
C15_TimeoutReturnsFalse ==
    /\ pc = "off" /\ telegram_bot_token /\ telegram_channel_id
    /\ Len(attempts) > 0 /\ post_outcome = "timeout"
    /\ ~send_result /\ ~send_raised

\* C13 (FairSession): handle_confirmation_screens runs at most max_screens
\* scans and then returns; a scan clicks at most one button, so at most
\* max_screens buttons are clicked; a new scan starts only after a scan that
\* clicked; a scan that met no displayed button clicked nothing and is
\* followed by the return; after the return there is no scan and no click.
C13_ConfirmationBounded ==
    /\ [](/\ scans <= max_screens
          /\ screens_handled <= scans
          /\ clicked => visible)
    /\ [][ /\ scans' # scans =>
                /\ scans' = scans + 1
                /\ scans = 0 \/ clicked
                /\ screens_handled = scans
           /\ screens_handled' # screens_handled =>
                /\ screens_handled' = screens_handled + 1
                /\ scans' = scans /\ ~clicked
           /\ (spc = "confirm" /\ sel = 0 /\ scans > 0 /\ ~visible) =>
                /\ spc' = "login_done"
                /\ scans' = scans /\ screens_handled' = screens_handled
           /\ spc # "confirm" =>
                scans' = scans /\ screens_handled' = screens_handled ]_vars
    /\ (spc = "confirm") ~> (spc = "login_done")

\* C13 witness: two scans clicked a button each, the third met no displayed
\* button, and the function returned.
C13_StopsAtEmptyScan ==
    /\ spc = "login_done" /\ scans = 3 /\ screens_handled = 2
    /\ ~visible /\ ~clicked

\* C16 (SpecSession): when the URL read after the first page load does not
\* contain "login", perform_login has returned True and the flow is at or
\* past the call of navigate_to_1m_game: it never was in the username,
\* password, submit, puzzle or confirmation step, no field is filled, no
\* submit is clicked, and no scan has run.
C16_AlreadyLoggedInSkips ==
    current_url = HomeUrl =>
        /\ login_result = "True"
        /\ spc \in {"login_done", "poll", "tabs", "nav_done"}
        /\ acts = {} /\ puzzle = NoPuzzle
        /\ scans = 0 /\ screens_handled = 0

\* C16 witness: the page was already logged in and navigation has begun.
C16_StraightToNavigation ==
    /\ current_url = HomeUrl /\ login_result = "True"
    /\ spc = "poll" /\ polls = 0

\* C17 (SpecSession): perform_login returns False only before the URL is
\* read; once on the login page every step hands over to the next one (the
\* puzzle step always to the confirmation scans) and the function returns
\* True after at least one scan, whatever the lookups and the puzzle did;
\* and a drag is issued only on a found element, by (width - 10, 0).
C17_LoginCannotFailLate ==
    /\ [](/\ login_result = "False" => current_url = NoUrl
          /\ (spc = "login_done" /\ current_url \in {LoginUrl, UpperLoginUrl}) =>
                login_result = "True" /\ scans >= 1
          /\ ~puzzle.found => puzzle.drag = NoDrag
          /\ puzzle.drag # NoDrag =>
                /\ puzzle.found
                /\ puzzle.drag[1] = puzzle.width - 10 /\ puzzle.drag[2] = 0)
    /\ [][ /\ spc = "username" => spc' \in {"username", "password"}
           /\ spc = "password" => spc' \in {"password", "submit"}
           /\ spc = "submit" => spc' \in {"submit", "puzzle"}
           /\ spc = "puzzle" => spc' = "confirm"
           /\ spc \in {"username", "password", "submit", "puzzle"} =>
                login_result' = "pending" ]_vars

\* C17 witness: no field was found, the puzzle element was found and dragged
\* by 290 pixels, the gesture raised, and perform_login returned True.
C17_SuccessDespiteFailures ==
    /\ spc = "login_done" /\ login_result = "True"
    /\ acts = {}
    /\ puzzle.found /\ puzzle.raised /\ puzzle.drag = <<290, 0>>

\* C18 (SpecSession): navigate_to_1m_game reads the page text at most 5
\* times; it returns False exactly when it ends without a poll having found
\* an indicator (the load or a poll raised, or 5 polls found none) and True
\* whenever a poll found one, with or without a tab clicked; it clicks at
\* most one tab element.
C18_NavigationOutcome ==
    /\ [](/\ polls <= MaxPolls /\ tab_clicks <= 1
          /\ spc = "nav_done" <=> nav_result \in {"True", "False"}
          /\ spc = "nav_done" => (nav_result = "True" <=> game_loaded)
          /\ spc = "tabs" => game_loaded
          /\ nav_result = "False" => tab_clicks = 0)
    /\ [][ /\ spc = "tabs" =>
                /\ spc' \in {"tabs", "nav_done"}
                /\ spc' = "nav_done" => nav_result' = "True"
           /\ (spc = "poll" /\ polls = MaxPolls) => nav_result' = "False" ]_vars

\* C18 witness: the fifth poll found an indicator, no tab could be clicked,
\* and the function returned True.
C18_LoadedWithoutTab ==
    /\ spc = "nav_done" /\ nav_result = "True"
    /\ polls = MaxPolls /\ tab_clicks = 0

\* C12 (SpecMain): when the program has ended, by whatever path, the sqlite
\* connection and the browser, if they were acquired, are released.
C12_ReleasedOnEveryExit ==
    mpc = "exit" => (conn # "open" /\ driver # "open")

Count(seq, x) == Cardinality({k \in 1..Len(seq) : seq[k] = x})

\* C21 (Spec): the first message attempted is the startup message, it is
\* attempted once and before perform_login is called; the completion message
\* is attempted at most once, only by a run that logged in and navigated
\* without a failure message and ran all 5 iterations, and it is the last
\* message (so every prediction message precedes it); a run that ended in
\* Failed never attempted it; a run that reached the loop can always take
\* its next step, and when it is done it has attempted the message.
C21_MessageOrder ==
    /\ [](/\ attempts # <<>> => attempts[1] = "startup"
          /\ Count(attempts, "startup") <= 1
          /\ Count(attempts, "completed") <= 1
          /\ (login_calls > 0 \/ navigate_calls > 0 \/ cycle > 0) =>
                Count(attempts, "startup") = 1
          /\ "completed" \in SeqRange(attempts) =>
                /\ pc = "done" /\ cycle = NumCycles
                /\ login_calls = 1 /\ navigate_calls = 1
                /\ attempts[Len(attempts)] = "completed"
                /\ "login_failed" \notin SeqRange(attempts)
                /\ "navigation_failed" \notin SeqRange(attempts)
          /\ pc = "done" => "completed" \in SeqRange(attempts)
          /\ pc = "failed" => "completed" \notin SeqRange(attempts)
          /\ pc \in {"loop", "predict"} => ENABLED <<Next>>_vars)
    /\ [][ /\ "completed" \in SeqRange(attempts) => attempts' = attempts
           /\ pc \in {"loop", "predict"} =>
                 \/ pc' \in {"loop", "predict"} /\ attempts' # attempts =>
                       attempts' = Append(attempts, "prediction")
                 \/ pc' = "done" /\ attempts' = Append(attempts, "completed") ]_vars

\* C21 witness: a run that sent the startup message, then predictions, then
\* the completion message, and nothing else.
C21_StartupPredictionsCompleted ==
    /\ pc = "done" /\ Len(attempts) >= 4
    /\ attempts[1] = "startup"
    /\ attempts[Len(attempts)] = "completed"
    /\ \A k \in 2..(Len(attempts) - 1) : attempts[k] = "prediction"

=============================================================================
